---- MODULE Spec2Model ----
(***************************************************************************)
(* Model of the stock alert application (src/app.py): the cooldown file,   *)
(* the signal evaluation, the page evaluation pass and the monitor loop of *)
(* one browser session, the RSI calculation, the market clock, and a       *)
(* second session writing the same cooldown file.                          *)
(*                                                                         *)
(* Time is the wall clock in whole seconds since Monday 00:00 New York     *)
(* time.  The clock only takes the values of Instants, so that the         *)
(* durations of the source (09:30, 16:00, cooldown minutes, 24 hours) keep *)
(* their real values.                                                      *)
(***************************************************************************)
EXTENDS Integers, Sequences, FiniteSets, TLC

VARIABLES
    now,               \* wall clock (datetime.now())
    file,              \* content of COOLDOWN_FILE: ticker -> ISO timestamp
    writable,          \* COOLDOWN_FILE can be written (FALSE: open/write raise)
    watchlist,         \* st.session_state.watchlist
    alert_history,     \* st.session_state.alert_history
    cooldown_cleaned,  \* 'cooldown_cleaned' in st.session_state
    BOT_TOKEN,         \* st.secrets TELEGRAM_BOT_TOKEN ("" when missing)
    CHAT_ID,           \* st.secrets TELEGRAM_CHAT_ID ("" when missing)
    rsi_threshold,     \* slider value
    drop_threshold,    \* slider value
    cooldown,          \* slider value (minutes)
    pc,                \* position of the script run
    start_btn,         \* value of the start button in this script run
    is_open,           \* module level variable is_open (lines 507 and 666)
    phase,             \* which loop calls check_buy_signal
    idx,               \* loop index into the watchlist (1-based)
    cur,               \* ticker and get_stock_data result being processed
    ret,               \* value returned by check_buy_signal
    rows,              \* per instrument output of the running pass
    warning,           \* st.warning shown by the start handler / the loop
    exception,         \* uncaught exception that ended the script run
    last_ok,           \* history: time of the last successful send per ticker
    budget,            \* bound: successful sends still explored
    cycle_ended,       \* history: a monitor cycle reached its sleep and rerun
    df,                \* get_stock_data: the price history and its RSI column
    peer,              \* a second session: its call of check_buy_signal
    market_status      \* module level variable market_status (lines 507, 666)

vars == << now, file, writable, watchlist, alert_history, cooldown_cleaned, BOT_TOKEN, CHAT_ID,
           rsi_threshold, drop_threshold, cooldown, pc, start_btn, is_open,
           phase, idx, cur, ret, rows, warning, exception, last_ok,
           budget, cycle_ended, df, peer, market_status >>

\* state of the indicator calculation and of the second session
others == << df, peer >>

----------------------------------------------------------------------------
(* Bounds *)

NumTickers == 2

MaxInstants == 4

MaxAlerts == 1

----------------------------------------------------------------------------
(* Values *)

None == -9999

Day == 24 * 3600

At(weekday, h, m, s) == weekday * Day + h * 3600 + m * 60 + s

\* Friday 09:29:59 .. Sunday: the instants the clock can show.
InstantSeq ==
    << At(4, 9, 29, 59), At(4, 9, 30, 0), At(4, 10, 0, 0), At(4, 16, 0, 1),
       At(5, 9, 30, 0), At(5, 10, 0, 1), At(6, 12, 0, 0) >>

Min(a, b) == IF a < b THEN a ELSE b

Instants == { InstantSeq[i] : i \in 1 .. Min(MaxInstants, Len(InstantSeq)) }

DefaultWatchlist == << "NVDA", "GOOGL", "MRVL", "MU", "AVGO" >>

\* line 252: the first n instruments of the initial watchlist
InitialWatchlist(n) ==
    SubSeq(DefaultWatchlist, 1, Min(n, Len(DefaultWatchlist)))

Tickers == { DefaultWatchlist[i] : i \in 1 .. Len(DefaultWatchlist) }

----------------------------------------------------------------------------
(* Market clock *)

MarketOpenAt == 9 * 3600 + 30 * 60

MarketCloseAt == 16 * 3600

\* the closing second left out of the session
is_market_open_exclusive(t) ==
    LET weekday == (t \div Day) % 7
        tod == t % Day
    IN  IF weekday >= 5 THEN [open |-> FALSE, status |-> "WEEKEND"]
        ELSE IF MarketOpenAt <= tod /\ tod < MarketCloseAt
             THEN [open |-> TRUE, status |-> "OPEN"]
        ELSE IF tod < MarketOpenAt
             THEN [open |-> FALSE, status |-> "PRE_OPEN"]
        ELSE [open |-> FALSE, status |-> "CLOSED_AFTER_HOURS"]

is_market_open(t) ==
    LET weekday == (t \div Day) % 7
        tod == t % Day
    IN  IF weekday >= 5 THEN [open |-> FALSE, status |-> "WEEKEND"]
        ELSE IF MarketOpenAt <= tod /\ tod <= MarketCloseAt
             THEN [open |-> TRUE, status |-> "OPEN"]
        ELSE IF tod < MarketOpenAt
             THEN [open |-> FALSE, status |-> "PRE_OPEN"]
        ELSE [open |-> FALSE, status |-> "CLOSED_AFTER_HOURS"]

----------------------------------------------------------------------------
(* Cooldown file *)

\* datetime.isoformat(): date part and time-of-day part
isoformat(t) == << t \div Day, t % Day >>

fromisoformat(s) == s[1] * Day + s[2]

EmptyFile == [k \in {} |-> << 0, 0 >>]

\* missing, empty or unreadable file: {}
load_cooldown_data == [k \in DOMAIN file |-> fromisoformat(file[k])]

Serialize(data) == [k \in DOMAIN data |-> isoformat(data[k])]

\* The write is inside try/except-pass: it succeeds, or open() fails and the
\* file is left as it was, or the file was truncated by open(.., 'w') and the
\* dump failed (an empty file loads as {}).  The exception is swallowed.
save_cooldown_data(data) ==
    IF writable THEN { Serialize(data) } ELSE { file, EmptyFile }

Upsert(data, k, v) ==
    [x \in (DOMAIN data) \cup {k} |-> IF x = k THEN v ELSE data[x]]

\* the cooldown never in the way
can_send_alert_always(ticker, cooldown_minutes) == TRUE

can_send_alert(ticker, cooldown_minutes) ==
    LET cooldown_data == load_cooldown_data
    IN  IF ticker \notin DOMAIN cooldown_data THEN TRUE
        ELSE (now - cooldown_data[ticker]) >= cooldown_minutes * 60

record_alert(ticker) ==
    save_cooldown_data(Upsert(load_cooldown_data, ticker, now))

clear_old_cooldowns(hours) ==
    LET cooldown_data == load_cooldown_data
        keep == { k \in DOMAIN cooldown_data :
                    (now - cooldown_data[k]) < hours * 3600 }
    IN  save_cooldown_data([k \in keep |-> cooldown_data[k]])

----------------------------------------------------------------------------
(* Market data and signal evaluation *)

DefaultRsiThreshold == 30

DefaultDropThreshold == -5

DefaultCooldown == 30

RetentionHours == 24

\* get_stock_data: (None, None, None, None, None) on an exception or an empty
\* series, otherwise price, RSI (None when NaN) and change_pct (never None).
NoData == [price |-> None, rsi |-> None, change_pct |-> None]

Quote(p, r, c) == [price |-> p, rsi |-> r, change_pct |-> c]

get_stock_data ==
    { NoData, Quote(90, 25, -10), Quote(98, 35, -2), Quote(98, None, -2) }

NoCur == [ticker |-> "", price |-> None, rsi |-> None, change_pct |-> None]

NoText == [signals |-> << >>, cooldown_left |-> None]

NoRet == [has_signal |-> FALSE, signal_text |-> NoText, alert_sent |-> FALSE]

BlankRows == [i \in 1 .. Len(watchlist) |-> "pending"]

NoSends == [t \in Tickers |-> None]

\* no price history downloaded
NoFrame == [Close |-> << >>, RSI |-> << >>]

\* there is no second session
NoPeer ==
    [enabled |-> FALSE, pc |-> "idle", ticker |-> "", cooldown_data |-> EmptyFile,
     sent |-> None]

\* a strict comparison in place of <=
oversold_strict(rsi, threshold) == rsi # None /\ rsi < threshold

\* line 358: rsi is not None and rsi <= rsi_threshold
oversold(rsi, threshold) == rsi # None /\ rsi <= threshold

\* a strict comparison in place of <=
dropped_strict(change_pct, threshold) ==
    change_pct # None /\ change_pct < threshold

\* line 361: change_pct is not None and change_pct <= drop_threshold
dropped(change_pct, threshold) == change_pct # None /\ change_pct <= threshold

\* lines 356-362: the list `signals`
Signals(rsi, change_pct, rsi_thr, drop_thr) ==
    (IF oversold(rsi, rsi_thr)
        THEN << [kind |-> "RSI", value |-> rsi] >> ELSE << >>)
    \o
    (IF dropped(change_pct, drop_thr)
        THEN << [kind |-> "drop", value |-> change_pct] >> ELSE << >>)

\* format(x, ".0f") of x = secs / 60: round half to even
RoundMinutes(secs) ==
    LET q == secs \div 60
        r == secs % 60
    IN  IF r < 30 THEN q
        ELSE IF r > 30 THEN q + 1
        ELSE IF q % 2 = 0 THEN q ELSE q + 1

\* lines 392-393: get_last_alert_time and the remaining minutes
remaining(ticker, cooldown_minutes) ==
    LET cooldown_data == load_cooldown_data
    IN  IF ticker \in DOMAIN cooldown_data
        THEN RoundMinutes(cooldown_minutes * 60 - (now - cooldown_data[ticker]))
        ELSE 0

\* send_telegram_message: what the call can return
send_telegram_message ==
    IF BOT_TOKEN = "" \/ CHAT_ID = ""
    THEN { "not_configured" }
    ELSE { "ok", "non_200", "timeout", "request_exception" }

\* the record made whatever the send returned
should_record_always(outcome) == TRUE

\* nothing recorded whatever the send returned
should_record_never(outcome) == FALSE

\* line 380: if success
should_record(outcome) == outcome = "ok"

\* str.__format__ / float.__format__ / NoneType.__format__: the exception raised
ValidFloatSpecs == { "", ".0f", ".1f", ".2f" }

format(value, spec) ==
    IF value = None
    THEN (IF spec = "" THEN "none" ELSE "TypeError")
    ELSE (IF spec \in ValidFloatSpecs THEN "none" ELSE "ValueError")

\* line 688: f"... RSI: {rsi:.1f if rsi else 'N/A'} ..."
StatusLineRsiSpec == ".1f if rsi else 'N/A'"

----------------------------------------------------------------------------
(* The script run of one session *)

config ==
    << BOT_TOKEN, CHAT_ID, rsi_threshold, drop_threshold, cooldown, budget,
       writable, watchlist >>

\* A script run starts: the widgets are read, nothing is shown yet.
StartRun(button) ==
    /\ pc' = "top"
    /\ start_btn' = button
    /\ phase' = "page"
    /\ idx' = 1
    /\ cur' = NoCur
    /\ ret' = NoRet
    /\ rows' = BlankRows
    /\ warning' = "none"
    /\ exception' = "none"

\* The user presses the start button (line 530) while the script is at rest.
ClickStart ==
    /\ pc = "idle"
    /\ StartRun(TRUE)
    /\ cycle_ended' = FALSE
    /\ UNCHANGED << now, file, alert_history, cooldown_cleaned, config, is_open,
                    last_ok >>
    /\ UNCHANGED << others, market_status >>

\* The refresh button (line 533) or any other widget: a plain script run.
ClickRefresh ==
    /\ pc = "idle"
    /\ StartRun(FALSE)
    /\ cycle_ended' = FALSE
    /\ UNCHANGED << now, file, alert_history, cooldown_cleaned, config, is_open,
                    last_ok >>
    /\ UNCHANGED << others, market_status >>

\* The cooldown reset button (lines 496-499): save {} and rerun.
ClickReset ==
    /\ pc = "idle"
    /\ file' \in save_cooldown_data(EmptyFile)
    /\ StartRun(FALSE)
    /\ last_ok' = NoSends
    /\ cycle_ended' = FALSE
    /\ UNCHANGED << now, alert_history, cooldown_cleaned, config, is_open >>
    /\ UNCHANGED << others, market_status >>

\* The page is closed or reloaded: the session state is gone and a new
\* session starts (lines 251-259 find an empty st.session_state).
NewSession ==
    /\ pc = "idle"
    /\ alert_history' = << >>
    /\ cooldown_cleaned' = FALSE
    /\ StartRun(FALSE)
    /\ last_ok' = NoSends
    /\ cycle_ended' = FALSE
    /\ UNCHANGED << now, file, config, is_open >>
    /\ UNCHANGED << others, market_status >>

\* Lines 251-259 and 507: session initialisation, then the market clock.
ScriptTop ==
    /\ pc = "top"
    /\ IF cooldown_cleaned
       THEN file' = file
       ELSE file' \in clear_old_cooldowns(RetentionHours)
    /\ cooldown_cleaned' = TRUE
    /\ is_open' = is_market_open(now).open
    /\ market_status' = is_market_open(now).status
    /\ pc' = "fetch"
    /\ UNCHANGED << now, alert_history, config, start_btn, phase, idx, cur, ret,
                    rows, warning, exception, last_ok, cycle_ended >>
    /\ UNCHANGED others

\* The end of one loop iteration: the next instrument, or the end of the pass.
Advance ==
    IF idx < Len(watchlist)
    THEN idx' = idx + 1 /\ pc' = "fetch"
    ELSE /\ idx' = 1
         /\ pc' = IF phase = "page"
                  THEN (IF start_btn THEN "start" ELSE "idle")
                  ELSE "sleep"

\* Lines 550-555 / 597-605 (page) and 678-680 / 689-690 (monitor loop).
Fetch ==
    /\ pc = "fetch"
    /\ \E r \in get_stock_data :
        IF r.price = None
        THEN /\ cur' = NoCur
             /\ rows' = [rows EXCEPT ![idx] = "load_failed"]
             /\ Advance
        ELSE /\ cur' = [ticker |-> watchlist[idx], price |-> r.price,
                        rsi |-> r.rsi, change_pct |-> r.change_pct]
             /\ rows' = [rows EXCEPT ![idx] = "fetched"]
             /\ idx' = idx
             /\ pc' = "check"
    /\ ret' = NoRet
    /\ UNCHANGED << now, file, alert_history, cooldown_cleaned, config,
                    start_btn, is_open, phase, warning, exception, last_ok,
                    cycle_ended >>
    /\ UNCHANGED << others, market_status >>

\* check_buy_signal, lines 356-367 and 391-396: the signals and the cooldown.
CheckSignal ==
    /\ pc = "check"
    /\ LET signals == Signals(cur.rsi, cur.change_pct, rsi_threshold,
                              drop_threshold)
       IN  IF signals = << >>
           THEN ret' = NoRet /\ pc' = "report"
           ELSE IF can_send_alert(cur.ticker, cooldown)
           THEN /\ ret' = [has_signal |-> TRUE,
                           signal_text |-> [signals |-> signals,
                                            cooldown_left |-> None],
                           alert_sent |-> FALSE]
                /\ pc' = "send"
           ELSE /\ ret' = [has_signal |-> TRUE,
                           signal_text |->
                               [signals |-> signals,
                                cooldown_left |->
                                    remaining(cur.ticker, cooldown)],
                           alert_sent |-> FALSE]
                /\ pc' = "report"
    /\ UNCHANGED << now, file, alert_history, cooldown_cleaned, config,
                    start_btn, is_open, phase, idx, cur, rows, warning,
                    exception, last_ok, cycle_ended >>
    /\ UNCHANGED << others, market_status >>

\* check_buy_signal, lines 368-390: send, and on success record and append.
Dispatch ==
    /\ pc = "send"
    /\ \E outcome \in send_telegram_message :
        /\ IF should_record(outcome)
           THEN /\ budget > 0
                /\ budget' = budget - 1
                /\ file' \in record_alert(cur.ticker)
                /\ alert_history' =
                       Append(alert_history,
                              [time |-> now % Day, ticker |-> cur.ticker,
                               price |-> cur.price,
                               signal |-> ret.signal_text.signals])
           ELSE UNCHANGED << file, alert_history, budget >>
        /\ ret' = [ret EXCEPT !.alert_sent = (outcome = "ok")]
        /\ last_ok' = IF outcome = "ok"
                      THEN [last_ok EXCEPT ![cur.ticker] = now]
                      ELSE last_ok
    /\ pc' = "report"
    /\ UNCHANGED << now, writable, watchlist, cooldown_cleaned, BOT_TOKEN,
                    CHAT_ID, rsi_threshold, drop_threshold, cooldown, start_btn, is_open, phase, idx,
                    cur, rows, warning, exception, cycle_ended >>
    /\ UNCHANGED << others, market_status >>

\* Lines 590-596: the page pass keeps the outcome and goes on.
PageReport ==
    /\ pc = "report"
    /\ phase = "page"
    /\ rows' = [rows EXCEPT ![idx] = "evaluated"]
    /\ cur' = NoCur
    /\ ret' = NoRet
    /\ Advance
    /\ UNCHANGED << now, file, alert_history, cooldown_cleaned, config,
                    start_btn, is_open, phase, warning, exception, last_ok,
                    cycle_ended >>
    /\ UNCHANGED << others, market_status >>

\* Lines 686-688: the status line of the monitor loop.  An exception is not
\* caught anywhere: it ends the script run.
StatusLine ==
    /\ pc = "report"
    /\ phase = "monitor"
    /\ LET raised == format(cur.rsi, StatusLineRsiSpec)
       IN  IF raised = "none"
           THEN /\ rows' = [rows EXCEPT ![idx] = "shown"]
                /\ exception' = exception
                /\ Advance
           ELSE /\ rows' = [rows EXCEPT ![idx] = "evaluated"]
                /\ exception' = raised
                /\ pc' = "idle"
                /\ idx' = idx
    /\ cur' = NoCur
    /\ ret' = NoRet
    /\ UNCHANGED << now, file, alert_history, cooldown_cleaned, config,
                    start_btn, is_open, phase, warning, last_ok,
                    cycle_ended >>
    /\ UNCHANGED << others, market_status >>

\* the chat id left out of the check
start_refusal_token_only ==
    IF ~is_open THEN "market"
    ELSE IF BOT_TOKEN = "" THEN "telegram"
    ELSE "none"

\* Lines 654-657: why the loop refuses to start ("none": it starts).
start_refusal ==
    IF ~is_open THEN "market"
    ELSE IF BOT_TOKEN = "" \/ CHAT_ID = "" THEN "telegram"
    ELSE "none"

\* Lines 653-663: the start button handler.
StartMonitor ==
    /\ pc = "start"
    /\ warning' = start_refusal
    /\ IF start_refusal = "none"
       THEN pc' = "loop_top" /\ phase' = "monitor"
       ELSE pc' = "idle" /\ phase' = phase
    /\ UNCHANGED << now, file, alert_history, cooldown_cleaned, config,
                    start_btn, is_open, idx, cur, ret, rows, exception,
                    last_ok, cycle_ended >>
    /\ UNCHANGED << others, market_status >>

\* the value read at line 507 used again instead of a new reading
loop_clock_stale == is_open

\* Line 666: is_open, ny_time, market_status = is_market_open()
loop_clock == is_market_open(now).open

\* Lines 665-676: the top of a cycle of the monitor loop.
LoopTop ==
    /\ pc = "loop_top"
    /\ is_open' = loop_clock
    /\ market_status' = is_market_open(now).status
    /\ IF ~loop_clock
       THEN warning' = "closed" /\ pc' = "idle" /\ UNCHANGED << idx, rows >>
       ELSE /\ warning' = warning
            /\ pc' = "fetch"
            /\ idx' = 1
            /\ rows' = BlankRows
    /\ UNCHANGED << now, file, alert_history, cooldown_cleaned, config,
                    start_btn, phase, cur, ret, exception, last_ok,
                    cycle_ended >>
    /\ UNCHANGED others

\* Lines 695-696: sleep, then st.rerun(): the script starts again from the
\* top, and a button is True only in the run its click started.
Sleep ==
    /\ pc = "sleep"
    /\ StartRun(FALSE)
    /\ cycle_ended' = TRUE
    /\ UNCHANGED << now, file, alert_history, cooldown_cleaned, config, is_open,
                    last_ok >>
    /\ UNCHANGED << others, market_status >>

\* The storage stops accepting writes (disk full, file not writable).
StorageFails ==
    /\ writable
    /\ writable' = FALSE
    /\ UNCHANGED << now, file, watchlist, alert_history, cooldown_cleaned,
                    BOT_TOKEN, CHAT_ID, rsi_threshold, drop_threshold, cooldown,
                    budget, pc,
                    start_btn, is_open, phase, idx, cur, ret, rows, warning,
                    exception, last_ok, cycle_ended >>
    /\ UNCHANGED << others, market_status >>

\* The wall clock advances.
Tick ==
    /\ \E t \in Instants : t > now /\ now' = t
    /\ UNCHANGED << file, alert_history, cooldown_cleaned, config, pc,
                    start_btn, is_open, phase, idx, cur, ret, rows, warning,
                    exception, last_ok, cycle_ended >>
    /\ UNCHANGED << others, market_status >>

\* A new deployment with n instruments on the watchlist; at most `sends`
\* successful sends are explored.
InitWith(n, sends) ==
    /\ now = InstantSeq[1]
    /\ file = EmptyFile
    /\ writable = TRUE
    /\ watchlist = InitialWatchlist(n)
    /\ budget = sends
    /\ alert_history = << >>
    /\ cooldown_cleaned = FALSE
    /\ BOT_TOKEN \in { "", "token" }
    /\ CHAT_ID \in { "", "chat" }
    /\ rsi_threshold = DefaultRsiThreshold
    /\ drop_threshold = DefaultDropThreshold
    /\ cooldown = DefaultCooldown
    /\ pc = "top"
    /\ start_btn = FALSE
    /\ is_open = FALSE
    /\ phase = "page"
    /\ idx = 1
    /\ cur = NoCur
    /\ ret = NoRet
    /\ rows = BlankRows
    /\ warning = "none"
    /\ exception = "none"
    /\ last_ok = NoSends
    /\ cycle_ended = FALSE
    /\ df = NoFrame
    /\ peer = NoPeer
    /\ market_status = ""

Init == InitWith(NumTickers, MaxAlerts)

InitWide == InitWith(NumTickers + 1, MaxAlerts + 1)

Next ==
    \/ ClickStart
    \/ ClickRefresh
    \/ ClickReset
    \/ NewSession
    \/ ScriptTop
    \/ Fetch
    \/ CheckSignal
    \/ Dispatch
    \/ PageReport
    \/ StatusLine
    \/ StartMonitor
    \/ LoopTop
    \/ Sleep
    \/ StorageFails
    \/ Tick

Spec == Init /\ [][Next]_vars

\* The same program with one more instrument and one more alert.
SpecWide == InitWide /\ [][Next]_vars

----------------------------------------------------------------------------
(* check_buy_signal called on its own, on every combination of inputs *)

EvalRsi == { None, 0, 10, 25, 30, 31, 35, 50, 100 }

EvalChange == { None, -10, -6, -5, -4, -2, -1, 0 }

\* slider ranges, lines 477-478
EvalRsiThresholds == { 10, 30, 50 }

EvalDropThresholds == { -10, -5, -1 }

InitEval ==
    /\ now = InstantSeq[1]
    /\ file \in { EmptyFile,
                   [k \in { DefaultWatchlist[1] } |-> isoformat(InstantSeq[1])] }
    /\ writable = TRUE
    /\ watchlist = InitialWatchlist(NumTickers)
    /\ budget = MaxAlerts
    /\ alert_history = << >>
    /\ cooldown_cleaned = TRUE
    /\ BOT_TOKEN = "token"
    /\ CHAT_ID = "chat"
    /\ rsi_threshold \in EvalRsiThresholds
    /\ drop_threshold \in EvalDropThresholds
    /\ cooldown = DefaultCooldown
    /\ pc = "check"
    /\ start_btn = FALSE
    /\ is_open = FALSE
    /\ phase = "direct"
    /\ idx = 1
    /\ cur \in { [ticker |-> DefaultWatchlist[1], price |-> 90, rsi |-> r,
                   change_pct |-> c] : r \in EvalRsi, c \in EvalChange }
    /\ ret = NoRet
    /\ rows = BlankRows
    /\ warning = "none"
    /\ exception = "none"
    /\ last_ok = NoSends
    /\ cycle_ended = FALSE
    /\ df = NoFrame
    /\ peer = NoPeer
    /\ market_status = ""

NextEval ==
    \/ CheckSignal
    \/ Dispatch
    \/ Tick

SpecEval == InitEval /\ [][NextEval]_vars

----------------------------------------------------------------------------
(* calculate_rsi on a price history                                       *)
(*                                                                         *)
(* A float is a rational n/d, +inf or NaN, so that the divisions are       *)
(* exact and a division by zero gives what numpy gives.                    *)

RsiPeriod == 3

MaxLen == RsiPeriod + 2

MaxPrice == RsiPeriod + 2

Num(n, d) == [kind |-> "num", n |-> n, d |-> d]

NaN == [kind |-> "nan", n |-> 0, d |-> 1]

Inf == [kind |-> "inf", n |-> 0, d |-> 1]

\* line 313: None in place of NaN
NoRsi == [kind |-> "None", n |-> 0, d |-> 1]

isna(x) == x.kind = "nan"

\* comparisons with NaN are False
gt0(x) == x.kind = "inf" \/ (x.kind = "num" /\ x.n > 0)

lt0(x) == x.kind = "num" /\ x.n < 0

neg(x) == IF x.kind = "num" THEN Num(-x.n, x.d) ELSE x

\* Series.diff(): the first element has no predecessor
diff(prices) ==
    [i \in 1 .. Len(prices) |->
        IF i = 1 THEN NaN ELSE Num(prices[i] - prices[i - 1], 1)]

\* Series.where(cond, other): the value where cond holds, else other
where(s, cond, other) ==
    [i \in 1 .. Len(s) |-> IF cond[i] THEN s[i] ELSE other]

RECURSIVE SumN(_, _, _)
SumN(s, lo, hi) == IF lo > hi THEN 0 ELSE s[hi].n + SumN(s, lo, hi - 1)

\* Series.rolling(window, min_periods).mean() of a series of whole numbers
rolling_mean(s, window, min_periods) ==
    [i \in 1 .. Len(s) |->
        LET lo == IF i - window + 1 < 1 THEN 1 ELSE i - window + 1
            obs == { j \in lo .. i : ~isna(s[j]) }
        IN  IF Cardinality(obs) < min_periods \/ Cardinality(obs) < i - lo + 1
            THEN NaN
            ELSE Num(SumN(s, lo, i), Cardinality(obs))]

\* a zero divisor always giving NaN
divide_zero_nan(a, b) ==
    IF isna(a) \/ isna(b) \/ b.n = 0 THEN NaN
    ELSE Num(a.n * b.d, a.d * b.n)

\* line 275: float division of two non-negative means: x/0 = inf, 0/0 = NaN
divide(a, b) ==
    IF isna(a) \/ isna(b) THEN NaN
    ELSE IF b.n = 0 THEN (IF a.n = 0 THEN NaN ELSE Inf)
    ELSE Num(a.n * b.d, a.d * b.n)

\* line 276: 100 - (100 / (1 + rs)), rs >= 0
rsi_from_rs(rs) ==
    IF isna(rs) THEN NaN
    ELSE IF rs.kind = "inf" THEN Num(100, 1)
    ELSE Num(100 * rs.n, rs.n + rs.d)

calculate_rsi(prices, period) ==
    LET delta == diff(prices)
        gain == where(delta, [i \in 1 .. Len(delta) |-> gt0(delta[i])],
                      Num(0, 1))
        loss == where([i \in 1 .. Len(delta) |-> neg(delta[i])],
                      [i \in 1 .. Len(delta) |-> lt0(delta[i])], Num(0, 1))
        avg_gain == rolling_mean(gain, period, period)
        avg_loss == rolling_mean(loss, period, period)
    IN  [i \in 1 .. Len(prices) |->
            rsi_from_rs(divide(avg_gain[i], avg_loss[i]))]

\* line 313: the last RSI value, None when it is NaN
current_rsi(rsi) ==
    IF isna(rsi[Len(rsi)]) THEN NoRsi ELSE rsi[Len(rsi)]

PriceSeries == UNION { [1 .. n -> 1 .. MaxPrice] : n \in 1 .. MaxLen }

\* line 305: a price history arrives (an empty one is returned as no data)
Download ==
    /\ df = NoFrame
    /\ \E s \in PriceSeries : df' = [Close |-> s, RSI |-> << >>]
    /\ UNCHANGED << now, file, alert_history, cooldown_cleaned, config, pc,
                    start_btn, is_open, phase, idx, cur, ret, rows, warning,
                    exception, last_ok, cycle_ended, peer,
                    market_status >>

\* line 310: df['RSI'] = calculate_rsi(df['Close'], period)
CalculateRsi ==
    /\ df.Close # << >>
    /\ df.RSI = << >>
    /\ df' = [df EXCEPT !.RSI = calculate_rsi(df.Close, RsiPeriod)]
    /\ UNCHANGED << now, file, alert_history, cooldown_cleaned, config, pc,
                    start_btn, is_open, phase, idx, cur, ret, rows, warning,
                    exception, last_ok, cycle_ended, peer,
                    market_status >>

\* lines 323-326: get_stock_data returns, its local history is dropped
Return ==
    /\ df.RSI # << >>
    /\ df' = NoFrame
    /\ UNCHANGED << now, file, alert_history, cooldown_cleaned, config, pc,
                    start_btn, is_open, phase, idx, cur, ret, rows, warning,
                    exception, last_ok, cycle_ended, peer,
                    market_status >>

InitRsi ==
    /\ InitWith(NumTickers, MaxAlerts)
    /\ BOT_TOKEN = "token"
    /\ CHAT_ID = "chat"

NextRsi ==
    \/ Download
    \/ CalculateRsi
    \/ Return

SpecRsi == InitRsi /\ [][NextRsi]_vars

----------------------------------------------------------------------------
(* is_market_open called on its own, at the instants around its limits *)

ClockTimes ==
    { At(0, 0, 0, 0), At(0, 9, 29, 59), At(0, 9, 30, 0), At(0, 9, 30, 1),
      At(0, 12, 0, 0), At(0, 15, 59, 59), At(0, 16, 0, 0), At(0, 16, 0, 1),
      At(0, 23, 59, 59) }

ClockInstants == { d * Day + t : d \in 0 .. 6, t \in ClockTimes }

\* line 507: is_open, ny_time, market_status = is_market_open()
ReadClock ==
    /\ is_open' = is_market_open(now).open
    /\ market_status' = is_market_open(now).status
    /\ UNCHANGED << now, file, alert_history, cooldown_cleaned, config, pc,
                    start_btn, phase, idx, cur, ret, rows, warning, exception,
                    last_ok, cycle_ended, others >>

ClockTick ==
    /\ \E t \in ClockInstants : t > now /\ now' = t
    /\ UNCHANGED << file, alert_history, cooldown_cleaned, config, pc,
                    start_btn, is_open, phase, idx, cur, ret, rows, warning,
                    exception, last_ok, cycle_ended, others, market_status >>

InitClock ==
    /\ now \in ClockInstants
    /\ file = EmptyFile
    /\ writable = TRUE
    /\ watchlist = InitialWatchlist(NumTickers)
    /\ budget = MaxAlerts
    /\ alert_history = << >>
    /\ cooldown_cleaned = TRUE
    /\ BOT_TOKEN = "token"
    /\ CHAT_ID = "chat"
    /\ rsi_threshold = DefaultRsiThreshold
    /\ drop_threshold = DefaultDropThreshold
    /\ cooldown = DefaultCooldown
    /\ pc = "top"
    /\ start_btn = FALSE
    /\ is_open = FALSE
    /\ phase = "page"
    /\ idx = 1
    /\ cur = NoCur
    /\ ret = NoRet
    /\ rows = BlankRows
    /\ warning = "none"
    /\ exception = "none"
    /\ last_ok = NoSends
    /\ cycle_ended = FALSE
    /\ df = NoFrame
    /\ peer = NoPeer
    /\ market_status = ""

NextClock ==
    \/ ReadClock
    \/ ClockTick

SpecClock == InitClock /\ [][NextClock]_vars

----------------------------------------------------------------------------
(* The cooldown store operations called on their own, over two days *)

StoreInstants ==
    { At(4, 9, 30, 0), At(4, 10, 0, 0), At(5, 9, 29, 59), At(5, 9, 30, 0),
      At(5, 9, 30, 1), At(6, 12, 0, 0) }

\* lines 257-259: the first script run of a session prunes the store
SessionStart ==
    /\ ~cooldown_cleaned
    /\ file' \in clear_old_cooldowns(RetentionHours)
    /\ cooldown_cleaned' = TRUE
    /\ UNCHANGED << now, alert_history, config, pc, start_btn, is_open, phase,
                    idx, cur, ret, rows, warning, exception, last_ok,
                    cycle_ended, others, market_status >>

\* the session ends: st.session_state is gone
SessionEnd ==
    /\ cooldown_cleaned
    /\ cooldown_cleaned' = FALSE
    /\ UNCHANGED << now, file, alert_history, config, pc, start_btn, is_open,
                    phase, idx, cur, ret, rows, warning, exception, last_ok,
                    cycle_ended, others, market_status >>

\* line 381: record_alert(ticker) after a successful send
RecordAlert ==
    /\ cooldown_cleaned
    /\ \E i \in 1 .. Len(watchlist) :
          /\ file' \in record_alert(watchlist[i])
          /\ last_ok' = [last_ok EXCEPT ![watchlist[i]] = now]
    /\ UNCHANGED << now, alert_history, cooldown_cleaned, config, pc, start_btn,
                    is_open, phase, idx, cur, ret, rows, warning, exception,
                    cycle_ended, others, market_status >>

StoreTick ==
    /\ \E t \in StoreInstants : t > now /\ now' = t
    /\ UNCHANGED << file, alert_history, cooldown_cleaned, config, pc,
                    start_btn, is_open, phase, idx, cur, ret, rows, warning,
                    exception, last_ok, cycle_ended, others, market_status >>

InitStore ==
    /\ InitWith(NumTickers, MaxAlerts)
    /\ BOT_TOKEN = "token"
    /\ CHAT_ID = "chat"

NextStore ==
    \/ SessionStart
    \/ SessionEnd
    \/ RecordAlert
    \/ StoreTick
    \/ StorageFails

SpecStore == InitStore /\ [][NextStore]_vars

----------------------------------------------------------------------------
(* check_buy_signal called again and again in one session, every half hour *)

HistoryShown == 10

\* every entry shown
history_shown_all == alert_history

\* line 647: st.session_state.alert_history[-10:]
history_shown ==
    SubSeq(alert_history,
           IF Len(alert_history) > HistoryShown
           THEN Len(alert_history) - HistoryShown + 1 ELSE 1,
           Len(alert_history))

HistoryInstants == { At(4, 9, 30, 0) + k * 1800 : k \in 0 .. HistoryShown + 1 }

\* the next call of check_buy_signal with a fetched quote
Evaluate ==
    /\ pc = "report"
    /\ phase = "direct"
    /\ \E i \in 1 .. Len(watchlist), r \in get_stock_data \ { NoData } :
          cur' = [ticker |-> watchlist[i], price |-> r.price, rsi |-> r.rsi,
                  change_pct |-> r.change_pct]
    /\ ret' = NoRet
    /\ pc' = "check"
    /\ UNCHANGED << now, file, alert_history, cooldown_cleaned, config,
                    start_btn, is_open, phase, idx, rows, warning, exception,
                    last_ok, cycle_ended, others, market_status >>

HistoryTick ==
    /\ \E t \in HistoryInstants : t > now /\ now' = t
    /\ UNCHANGED << file, alert_history, cooldown_cleaned, config, pc,
                    start_btn, is_open, phase, idx, cur, ret, rows, warning,
                    exception, last_ok, cycle_ended, others, market_status >>

InitHistory ==
    /\ now = At(4, 9, 30, 0)
    /\ file = EmptyFile
    /\ writable = TRUE
    /\ watchlist = InitialWatchlist(1)
    /\ budget = HistoryShown + 1
    /\ alert_history = << >>
    /\ cooldown_cleaned = TRUE
    /\ BOT_TOKEN = "token"
    /\ CHAT_ID = "chat"
    /\ rsi_threshold = DefaultRsiThreshold
    /\ drop_threshold = DefaultDropThreshold
    /\ cooldown = DefaultCooldown
    /\ pc = "report"
    /\ start_btn = FALSE
    /\ is_open = TRUE
    /\ phase = "direct"
    /\ idx = 1
    /\ cur = NoCur
    /\ ret = NoRet
    /\ rows = BlankRows
    /\ warning = "none"
    /\ exception = "none"
    /\ last_ok = NoSends
    /\ cycle_ended = FALSE
    /\ df = NoFrame
    /\ peer = NoPeer
    /\ market_status = "OPEN"

NextHistory ==
    \/ Evaluate
    \/ CheckSignal
    \/ Dispatch
    \/ HistoryTick

SpecHistory == InitHistory /\ [][NextHistory]_vars

----------------------------------------------------------------------------
(* A second session on the same cooldown file.  Each session runs the      *)
(* script in its own thread; the second one is followed through one call   *)
(* of check_buy_signal, and its record_alert is split into the load of     *)
(* line 89 and the save of line 91, between which the first session runs.  *)

\* lines 364-367 in the second session: a signal fired and can_send_alert
\* returned True
PeerCheck ==
    /\ peer.enabled
    /\ peer.pc = "idle"
    /\ \E i \in 1 .. Len(watchlist) :
          /\ can_send_alert(watchlist[i], cooldown)
          /\ peer' = [peer EXCEPT !.pc = "send", !.ticker = watchlist[i]]
    /\ UNCHANGED << now, file, alert_history, cooldown_cleaned, config, pc,
                    start_btn, is_open, phase, idx, cur, ret, rows, warning,
                    exception, last_ok, cycle_ended, df, market_status >>

\* lines 378-380 and 89-90 in the second session: the send, and on success
\* the load and the update of the map in memory
PeerSend ==
    /\ peer.pc = "send"
    /\ \E outcome \in send_telegram_message :
          IF should_record(outcome)
          THEN peer' = [peer EXCEPT !.pc = "record",
                                    !.cooldown_data =
                                        Upsert(load_cooldown_data, peer.ticker,
                                               now),
                                    !.sent = now]
          ELSE peer' = [peer EXCEPT !.pc = "idle", !.ticker = ""]
    /\ UNCHANGED << now, file, alert_history, cooldown_cleaned, config, pc,
                    start_btn, is_open, phase, idx, cur, ret, rows, warning,
                    exception, last_ok, cycle_ended, df, market_status >>

\* line 91 in the second session: save_cooldown_data(cooldown_data)
PeerSave ==
    /\ peer.pc = "record"
    /\ file' \in save_cooldown_data(peer.cooldown_data)
    /\ peer' = [peer EXCEPT !.pc = "done", !.cooldown_data = EmptyFile]
    /\ UNCHANGED << now, alert_history, cooldown_cleaned, config, pc,
                    start_btn, is_open, phase, idx, cur, ret, rows, warning,
                    exception, last_ok, cycle_ended, df, market_status >>

\* One or two sessions on the deployment, each about to evaluate.
InitRace ==
    /\ now = InstantSeq[1]
    /\ file = EmptyFile
    /\ writable = TRUE
    /\ watchlist = InitialWatchlist(NumTickers)
    /\ budget = MaxAlerts
    /\ alert_history = << >>
    /\ cooldown_cleaned = TRUE
    /\ BOT_TOKEN = "token"
    /\ CHAT_ID = "chat"
    /\ rsi_threshold = DefaultRsiThreshold
    /\ drop_threshold = DefaultDropThreshold
    /\ cooldown = DefaultCooldown
    /\ pc = "report"
    /\ start_btn = FALSE
    /\ is_open = FALSE
    /\ phase = "direct"
    /\ idx = 1
    /\ cur = NoCur
    /\ ret = NoRet
    /\ rows = BlankRows
    /\ warning = "none"
    /\ exception = "none"
    /\ last_ok = NoSends
    /\ cycle_ended = FALSE
    /\ df = NoFrame
    /\ peer \in { NoPeer, [NoPeer EXCEPT !.enabled = TRUE] }
    /\ market_status = ""

NextRace ==
    \/ Evaluate
    \/ CheckSignal
    \/ Dispatch
    \/ Tick
    \/ PeerCheck
    \/ PeerSend
    \/ PeerSave

SpecRace == InitRace /\ [][NextRace]_vars

----------------------------------------------------------------------------
(* Claims *)

\* A successful send: the step of check_buy_signal in which
\* send_telegram_message returned success.
SentNow == budget' < budget

\* C1: within one session, with a fixed cooldown and no reset in between,
\* two successful dispatches for the same instrument are at least the
\* cooldown duration apart.
C1_NoDuplicateWithinCooldown ==
    [][(SentNow /\ last_ok[cur.ticker] # None)
          => now - last_ok[cur.ticker] >= cooldown * 60]_vars

\* C2: an alert is dispatched only while the market clock reports OPEN,
\* in the page pass as in the monitor loop.
C2_AlertsOnlyInMarketHours ==
    [][SentNow => is_market_open(now).status = "OPEN"]_vars

\* C3: the cooldown file is written only after a successful send: an
\* evaluation whose send failed leaves the file as it was, and the
\* instrument may still alert.
C3_FailedSendLeavesStore ==
    [][/\ (pc = "check" /\ pc' # "check") => file' = file
       /\ (pc = "send" /\ pc' = "report" /\ ~ret'.alert_sent)
            => (file' = file /\ (can_send_alert(cur.ticker, cooldown))')
       /\ (pc = "send" /\ file' # file) => ret'.alert_sent]_vars

\* C3 witness: a configured channel, a store that holds a record, and an
\* evaluation whose send has just failed.
C3_Witness ==
    /\ pc = "report"
    /\ ret.has_signal /\ ~ret.alert_sent
    /\ ret.signal_text.cooldown_left = None
    /\ BOT_TOKEN # "" /\ CHAT_ID # ""
    /\ file # EmptyFile

\* C4: while the market stays open, the end of a poll cycle (sleep, rerun)
\* is followed by another cycle of the monitor loop: the script does not
\* come to rest after a completed cycle with the market still open.
C4_LoopRepeats ==
    (pc = "idle" /\ cycle_ended) => ~is_market_open(now).open

\* C5: no error aborts a poll cycle: no exception ends the script run.
C5_NoErrorAbortsCycle == exception = "none"

PassOver == pc \in { "idle", "start", "loop_top", "sleep" }

\* C6: a fetch failure is isolated: the instrument is reported as load
\* failed and is not evaluated, and every later instrument is still
\* fetched and evaluated in the same pass.
C6_FetchFailureIsolated ==
    /\ pc \in { "check", "send", "report" } => rows[idx] = "fetched"
    /\ \A i \in 1 .. Len(watchlist) :
          (PassOver /\ rows[i] = "load_failed")
              => \A j \in (i + 1) .. Len(watchlist) :
                    rows[j] \in { "load_failed", "evaluated", "shown" }

Polling ==
    phase = "monitor" /\ pc \in { "fetch", "check", "send", "report", "sleep" }

\* C7: the monitor loop polls only if the market clock was OPEN and both
\* the bot token and the chat id are set; otherwise the start handler
\* reports the reason and the script ends without a poll cycle.
C7_LoopEntryPrecondition ==
    /\ [](Polling => (is_open /\ BOT_TOKEN # "" /\ CHAT_ID # ""))
    /\ [][(pc = "start" /\ pc' # "start")
             => IF is_open /\ BOT_TOKEN # "" /\ CHAT_ID # ""
                THEN pc' = "loop_top" /\ warning' = "none"
                ELSE /\ pc' = "idle"
                     /\ phase' = "page"
                     /\ warning' \in { "market", "telegram" }
                     /\ warning' = "market" <=> ~is_open]_vars

\* C7 witness: the loop is polling.
C7_Witness == Polling /\ pc = "fetch" /\ idx = 1

\* C8: the market clock is read again at the top of every cycle; when it
\* is not OPEN the loop ends: nothing is fetched or sent and the script
\* comes to rest.
C8_LoopRechecksClock ==
    [][/\ (pc = "loop_top" /\ pc' # "loop_top")
            => IF is_market_open(now).status = "OPEN"
               THEN pc' = "fetch" /\ idx' = 1
               ELSE /\ pc' = "idle"
                    /\ warning' = "closed"
                    /\ UNCHANGED << file, alert_history, budget, rows, cur >>
       /\ (phase' = "monitor" /\ pc' = "fetch" /\ idx' = 1
              /\ ~(pc = "fetch" /\ idx = 1))
            => (pc = "loop_top" /\ is_market_open(now).status = "OPEN")]_vars

\* C8 witness: the loop has ended because the market closed after the
\* start handler had found it open.
C8_Witness == pc = "idle" /\ warning = "closed" /\ start_btn

\* C9: the outcome fires iff the indicator is defined and <= rsiThreshold
\* or changePct is defined and <= dropThreshold; the conditions reported
\* are exactly the ones that hold, the oversold one first.
C9_SignalEvaluation ==
    pc \in { "send", "report" } =>
        LET o == cur.rsi # None /\ ~(cur.rsi > rsi_threshold)
            d == cur.change_pct # None /\ ~(cur.change_pct > drop_threshold)
            sig == ret.signal_text.signals
        IN  /\ ret.has_signal <=> (o \/ d)
            /\ Len(sig) = (IF o THEN 1 ELSE 0) + (IF d THEN 1 ELSE 0)
            /\ o => sig[1] = [kind |-> "RSI", value |-> cur.rsi]
            /\ d => sig[Len(sig)] = [kind |-> "drop", value |-> cur.change_pct]

\* C9 witness: RSI 25 and a change of -10 under thresholds 30 / -5: both
\* conditions are reported.
C9_Witness ==
    /\ pc \in { "send", "report" }
    /\ cur.rsi = 25 /\ cur.change_pct = -10
    /\ rsi_threshold = 30 /\ drop_threshold = -5
    /\ Len(ret.signal_text.signals) = 2

\* C10: mayAlert is true iff there is no record or the time since the
\* record is >= cooldown; right after recordAlert for the instrument it is
\* false.
C10_MayAlertAfterRecord ==
    [][/\ \A t \in Tickers :
            (can_send_alert(t, cooldown))'
                <=> (\/ t \notin DOMAIN file'
                     \/ now' - fromisoformat(file'[t]) >= cooldown' * 60)
       /\ SentNow => ~(can_send_alert(cur.ticker, cooldown))']_vars

\* C11: whenever record_alert(ticker) returns, the cooldown file holds the
\* new timestamp for ticker, also when the write to storage fails.
C11_RecordIsDurable ==
    [][SentNow => /\ cur.ticker \in DOMAIN file'
                  /\ fromisoformat(file'[cur.ticker]) = now]_vars

\* C12: a record written by a successful alert survives the end of the
\* session and the start of a new one, start-up prune included: an
\* instrument inside its cooldown window before the restart has the same
\* record after it and may not alert.
C12_RecordsSurviveRestart ==
    [][(cooldown_cleaned' # cooldown_cleaned)
          => \A t \in DOMAIN file :
                (now - fromisoformat(file[t]) < cooldown * 60)
                    => /\ t \in DOMAIN file'
                       /\ file'[t] = file[t]
                       /\ ~(can_send_alert(t, cooldown))']_vars

StrictlyRising(s) == \A i \in 2 .. Len(s) : s[i] > s[i - 1]

StrictlyFalling(s) == \A i \in 2 .. Len(s) : s[i] < s[i - 1]

Flat(s) == \A i \in 2 .. Len(s) : s[i] = s[i - 1]

IsValue(x, v) == x.kind = "num" /\ x.n = v * x.d

\* C13: for a price series with fewer than N+1 samples (N the RSI period)
\* calculate_rsi is undefined at every position.
C13_InsufficientHistory ==
    (df.RSI # << >> /\ Len(df.Close) < RsiPeriod + 1)
        => \A i \in 1 .. Len(df.RSI) : isna(df.RSI[i])

\* C14: a strictly rising series has RSI 100 wherever N deltas exist and
\* wherever RSI is defined, a strictly falling one has RSI 0 there, and a
\* flat one has no RSI at any position and None as its current RSI.
C14_RsiExtremes ==
    df.RSI # << >> =>
        /\ StrictlyRising(df.Close) =>
              \A i \in 1 .. Len(df.RSI) :
                  /\ ~isna(df.RSI[i]) => IsValue(df.RSI[i], 100)
                  /\ i >= RsiPeriod + 1 => IsValue(df.RSI[i], 100)
        /\ StrictlyFalling(df.Close) =>
              \A i \in 1 .. Len(df.RSI) :
                  /\ ~isna(df.RSI[i]) => IsValue(df.RSI[i], 0)
                  /\ i >= RsiPeriod + 1 => IsValue(df.RSI[i], 0)
        /\ Flat(df.Close) =>
              /\ \A i \in 1 .. Len(df.RSI) : isna(df.RSI[i])
              /\ current_rsi(df.RSI) = NoRsi

\* C14 witness: a strictly rising series long enough for a full window.
C14_Witness ==
    /\ df.RSI # << >>
    /\ Len(df.Close) = RsiPeriod + 2
    /\ StrictlyRising(df.Close)
    /\ IsValue(current_rsi(df.RSI), 100)

\* the status the market clock is specified to give at instant t
ClockStatus(t) ==
    LET weekday == (t \div Day) % 7
        tod == t % Day
    IN  CASE weekday \in { 5, 6 } -> "WEEKEND"
          [] weekday \notin { 5, 6 } /\ tod < 34200 -> "PRE_OPEN"
          [] weekday \notin { 5, 6 } /\ tod > 57600 -> "CLOSED_AFTER_HOURS"
          [] OTHER -> "OPEN"

\* C15: Saturday and Sunday give WEEKEND whatever the time; on a weekday
\* the clock gives OPEN iff 09:30:00 <= time <= 16:00:00, PRE_OPEN before
\* and CLOSED_AFTER_HOURS after; the flag returned is true iff OPEN.
C15_MarketClock ==
    /\ [](/\ is_market_open(now).status = ClockStatus(now)
          /\ is_market_open(now).open <=> ClockStatus(now) = "OPEN")
    /\ [][(market_status' # market_status \/ is_open' # is_open)
             => /\ market_status' = ClockStatus(now)
                /\ is_open' <=> ClockStatus(now) = "OPEN"]_vars

\* C15 witness: the clock read at 16:00:00 on a Friday.
C15_Witness ==
    /\ now = At(4, 16, 0, 0)
    /\ market_status = "OPEN"
    /\ is_open

\* the start-up prune of a session: lines 257-259
PruneStep == ~cooldown_cleaned /\ cooldown_cleaned'

\* C16: after clear_old_cooldowns(24) the store holds exactly the records
\* whose age is not greater than 24 hours, each with its timestamp
\* unchanged: no newer record is removed and none is added.
C16_PruneKeepsRecent ==
    [][PruneStep =>
          file' = [k \in { t \in DOMAIN file :
                              now - fromisoformat(file[t]) <= 24 * 3600 }
                      |-> file[k]]]_vars

\* C16 for a store that accepts the write, with the record that is exactly
\* 24 hours old removed as well (line 105 compares with <).
C16_PruneStrict ==
    [][(PruneStep /\ writable) =>
          file' = [k \in { t \in DOMAIN file :
                              now - fromisoformat(file[t]) < 24 * 3600 }
                      |-> file[k]]]_vars

\* C17: after the cooldown reset the store holds no record, whatever it
\* held before, and every instrument may alert; the store stays empty
\* until the next successful alert.
C17_ResetEmptiesStore ==
    [][/\ ClickReset
            => /\ file' = EmptyFile
               /\ \A t \in Tickers : (can_send_alert(t, cooldown))'
       /\ (file = EmptyFile /\ file' # EmptyFile) => SentNow]_vars

\* an alert only appends one entry to the history and leaves the others
AppendOnly ==
    alert_history' # alert_history
        => /\ Len(alert_history') = Len(alert_history) + 1
           /\ SubSeq(alert_history', 1, Len(alert_history)) = alert_history

\* C18 as stated: in every reachable state of a session the stored alert
\* history holds at most N = 10 entries.
C18_StoredHistoryBounded == Len(alert_history) <= 10

\* C18, amended: the stored alert history is append-only and grows with
\* every alert; the history shown holds at most N = 10 entries, the most
\* recent ones in their order.
C18_HistoryAppendOnly ==
    /\ [](/\ Len(history_shown) <= 10
          /\ Len(history_shown) = Min(10, Len(alert_history))
          /\ \A i \in 1 .. Len(history_shown) :
                history_shown[i] =
                    alert_history[Len(alert_history) - Len(history_shown) + i])
    /\ [][AppendOnly]_vars

\* C18 witness: eleven alerts in one session, ten of them shown.
C18_Witness ==
    /\ Len(alert_history) = 11
    /\ Len(history_shown) = 10
    /\ history_shown[1] = alert_history[2]

\* the store has no record for ticker t, or one at least the cooldown old
StoreAllows(t) ==
    t \notin DOMAIN file \/ now - fromisoformat(file[t]) >= cooldown * 60

\* both sessions have sent an alert for one instrument, less than the
\* cooldown apart
TwoAlertsInWindow ==
    /\ peer.sent # None
    /\ last_ok[peer.ticker] # None
    /\ last_ok[peer.ticker] - peer.sent < cooldown * 60
    /\ peer.sent - last_ok[peer.ticker] < cooldown * 60

C20_RecordTouchesOnlyTicker ==
    [][/\ SentNow
            => \A t \in (DOMAIN file) \ { cur.ticker } :
                  t \in DOMAIN file' /\ file'[t] = file[t]
       /\ (peer.pc = "record" /\ peer'.pc = "done")
            => \A t \in (DOMAIN file) \ { peer.ticker } :
                  t \in DOMAIN file' /\ file'[t] = file[t]]_vars

\* the step in which send_telegram_message returns to check_buy_signal
SendReturns == pc = "send" /\ pc' = "report"

\* C21: an entry is appended to the alert history iff the send of that
\* evaluation succeeded; the append comes with record_alert for the same
\* instrument in the same step, so every successful send of a session adds
\* exactly one entry and nothing else adds one.
C21_HistoryOnlyOnDispatch ==
    [][/\ SendReturns =>
            IF ret'.alert_sent
            THEN /\ alert_history' =
                        Append(alert_history,
                               [time |-> now % Day, ticker |-> cur.ticker,
                                price |-> cur.price,
                                signal |-> ret.signal_text.signals])
                 /\ file' \in record_alert(cur.ticker)
                 /\ SentNow
            ELSE alert_history' = alert_history /\ ~SentNow
       /\ ~SendReturns =>
            (alert_history' = alert_history \/ alert_history' = << >>)
       /\ SentNow => SendReturns]_vars

\* C21 witness: a successful send has put the first entry in the history.
C21_Witness ==
    /\ pc = "report"
    /\ ret.alert_sent
    /\ Len(alert_history) = 1
    /\ alert_history[1].ticker = cur.ticker
    /\ cur.ticker \in DOMAIN file

\* C22: an evaluation in which no condition fires, or one fires inside the
\* cooldown window, attempts no send and leaves the cooldown file and the
\* alert history as they were; in the cooldown case the outcome is a fired
\* signal with alert_sent = false.
C22_NoDispatchNoChange ==
    [][(pc = "check" /\ pc' # "check") =>
          LET fired == \/ cur.rsi # None /\ ~(cur.rsi > rsi_threshold)
                       \/ cur.change_pct # None
                             /\ ~(cur.change_pct > drop_threshold)
              allowed == StoreAllows(cur.ticker)
          IN  /\ pc' = "send" <=> (fired /\ allowed)
              /\ pc' # "send" =>
                    /\ pc' = "report"
                    /\ file' = file
                    /\ alert_history' = alert_history
                    /\ budget' = budget
                    /\ ~ret'.alert_sent
                    /\ ret'.has_signal <=> fired
              /\ ~fired => ret' = NoRet]_vars

\* C22 witness: a signal fired inside the cooldown window and was reported
\* with the minutes left; nothing was sent.
C22_Witness ==
    /\ pc = "report"
    /\ ret.has_signal /\ ~ret.alert_sent
    /\ ret.signal_text.cooldown_left # None
    /\ ~StoreAllows(cur.ticker)
    /\ alert_history = << >>
    /\ budget = MaxAlerts

====
